---- MODULE Spec2Model ----
(***************************************************************************)
(* The front end of diff-rust: the Pinia store (stores/app.ts), the        *)
(* useDiff composable (loadFileTree, loadDiff, refreshDiff, the option     *)
(* toggles), App.vue (initialize, the directory picker), FileTree.vue      *)
(* (handleFileClick) and DiffView.vue (the two watchers, findHunks, hunk   *)
(* and file navigation).                                                   *)
(*                                                                         *)
(* One TLA+ step is one JavaScript task: an event handler or the           *)
(* continuation of a settled invoke(), together with every microtask it    *)
(* queues (Vue's pre-flush watchers, nextTick).  The commands get_diff,    *)
(* get_file_tree and check_delta run in the Rust back end; a call in       *)
(* flight is an entry of diffReqs / treeReqs, and calls settle in any      *)
(* order.                                                                  *)
(***************************************************************************)
EXTENDS Integers, Sequences, FiniteSets, TLC

VARIABLES
  store,      \* the Pinia store: one field per ref of stores/app.ts
  app,        \* App.vue: showDirectoryPicker, where initialize() stands, and what
              \* its checkDeltaInstalled() resolved to
  view,       \* DiffView.vue: currentHunkIndex, hunkElements (and the NodeList they index)
  diffReqs,   \* get_diff calls in flight, in the order they were issued
  treeReqs,   \* get_file_tree calls in flight, in the order they were issued
  diffFrom,   \* history: the loadDiff call whose result is store.currentDiff
  treeFrom,   \* history: the directory pair whose result is store.fileTree
  inputs      \* history: how many user events (clicks, keys) have been handled

vars == <<store, app, view, diffReqs, treeReqs, diffFrom, treeFrom, inputs>>

---------------------------------------------------------------------------
(* Bounds of the model. *)

\* user events (clicks and key presses) in one session
MaxInputs == 3
\* user events in one session when liveness is checked
MaxLiveInputs == 2
\* get_diff calls that may be in flight together
MaxDiffReqs == 2
\* get_file_tree calls that may be in flight together
MaxTreeReqs == 2
\* longest stream of rendered lines that findHunks is checked on
MaxLines == 3
\* most nodes (files and directories) of a tree that flattenTree is checked on
MaxTreeNodes == 4

---------------------------------------------------------------------------
(* Values. *)

\* JavaScript null, for refs that hold an object
Null == [null |-> TRUE]
\* JavaScript null, for string | null fields
NullStr == "<null>"

\* an optional string: None is undefined/null, Some(x) the value x
None == << >>
Some(x) == <<x>>

OptionKeys == {"side_by_side", "line_numbers", "collapsed", "show_whitespace"}

---------------------------------------------------------------------------
(* Rendered lines.  The back end returns markup whose lines the template   *)
(* inserts with v-html; findHunks reads each line's innerHTML and tests it *)
(* for three substrings.  A line is modelled by what those tests see: the  *)
(* length of its longest run of U+2500 characters, whether it contains     *)
(* "background", whether it contains "bg-"; cls is the class the back      *)
(* end's column splitter and hunk indexer give the line.                   *)

Line(dashes, background, bgclass, cls) ==
  [dashes |-> dashes, background |-> background, bgclass |-> bgclass, cls |-> cls]

CtxLine     == Line(0, FALSE, FALSE, "context")
DashLine    == Line(2, FALSE, FALSE, "context")
SepLine     == Line(3, FALSE, FALSE, "separator")
SepStyled   == Line(4, TRUE, FALSE, "separator")
RemovedLine == Line(0, TRUE, FALSE, "removed")
AddedLine   == Line(0, FALSE, TRUE, "added")
ChangedLine == Line(0, TRUE, TRUE, "changed")
\* the placeholder row the column splitter puts opposite a one-sided line
EmptyRow    == Line(0, FALSE, FALSE, "context")

LineKinds ==
  {CtxLine, DashLine, SepLine, SepStyled, RemovedLine, AddedLine, ChangedLine}

\* every stream of at most n lines
Streams(n) == UNION {[1..k -> LineKinds] : k \in 0..n}

\* html.includes('───') || html.includes('────')
isHunkSep(line) == line.dashes >= 3 \/ line.dashes >= 4

\* html.includes('background') || html.includes('bg-')
isChangedLine(line) == line.background \/ line.bgclass

RECURSIVE ScanLines(_, _, _, _)
\* the body of allLines.forEach: hunks holds the indices of the lines pushed
ScanLines(allLines, i, hunks, inChange) ==
  IF i > Len(allLines) THEN hunks
  ELSE IF isHunkSep(allLines[i])
    THEN ScanLines(allLines, i + 1, Append(hunks, i), FALSE)
  ELSE IF isChangedLine(allLines[i]) /\ ~inChange
    THEN ScanLines(allLines, i + 1, Append(hunks, i), TRUE)
  ELSE IF ~isChangedLine(allLines[i])
    THEN ScanLines(allLines, i + 1, hunks, FALSE)
  ELSE ScanLines(allLines, i + 1, hunks, inChange)

\* a slip of findHunks: every changed line is pushed, whatever precedes it
HunkListEveryChanged(allLines) ==
  SelectSeq([i \in 1..Len(allLines) |-> i],
            LAMBDA i : isHunkSep(allLines[i]) \/ isChangedLine(allLines[i]))

\* a slip of findHunks: inChange starts out true
HunkListInChange(allLines) == ScanLines(allLines, 1, << >>, TRUE)

\* the hunk list findHunks builds from the lines in diffContainer
HunkList(allLines) == ScanLines(allLines, 1, << >>, FALSE)

---------------------------------------------------------------------------
(* The store (stores/app.ts).  Every action of the store is a function     *)
(* from the store's value to its next value, so that a handler's calls     *)
(* compose in the order the code makes them.                               *)

InitStore ==
  [ leftDir        |-> NullStr,
    rightDir       |-> NullStr,
    fileTree       |-> << >>,
    files          |-> << >>,
    totalChanges   |-> 0,
    addedCount     |-> 0,
    deletedCount   |-> 0,
    modifiedCount  |-> 0,
    selectedFile   |-> Null,
    currentDiff    |-> Null,
    isLoadingDiff  |-> FALSE,
    diffError      |-> NullStr,
    viewOptions    |-> [ side_by_side    |-> TRUE,
                         line_numbers    |-> TRUE,
                         collapsed       |-> TRUE,
                         show_whitespace |-> FALSE ],
    deltaInstalled |-> TRUE,
    isLoadingTree  |-> FALSE,
    treeError      |-> NullStr ]

\* a string | null used as a condition
Truthy(str) == str # NullStr /\ str # ""

FileEntry(node, status) ==
  [ path       |-> node.path,
    name       |-> node.name,
    status     |-> status,
    is_dir     |-> FALSE,
    left_path  |-> node.left_path,
    right_path |-> node.right_path ]

RECURSIVE flattenTreeFilesFirst(_)
\* a slip of flattenTree: the files of a level come before what its
\* directories hold
flattenTreeFilesFirst(nodes) ==
  LET files == SelectSeq(nodes, LAMBDA node : ~node.is_dir /\ Truthy(node.status))
      dirs  == SelectSeq(nodes, LAMBDA node : node.is_dir)
      RECURSIVE Below(_)
      Below(ds) == IF ds = << >> THEN << >>
                   ELSE flattenTreeFilesFirst(Head(ds).children) \o Below(Tail(ds))
  IN  [k \in 1..Len(files) |-> FileEntry(files[k], files[k].status)] \o Below(dirs)

RECURSIVE flattenTree(_)
flattenTree(nodes) ==
  IF nodes = << >> THEN << >>
  ELSE LET node == Head(nodes)
           here == IF node.is_dir THEN flattenTree(node.children)
                   ELSE IF Truthy(node.status) THEN <<FileEntry(node, node.status)>>
                   ELSE << >>
       IN  here \o flattenTree(Tail(nodes))

changedFiles(s) == flattenTree(s.fileTree)

\* Array.prototype.findIndex, 0-based, -1 when no element has the path
FindIndex(fs, path) ==
  IF \E i \in 1..Len(fs) : fs[i].path = path
    THEN (CHOOSE i \in 1..Len(fs) :
            /\ fs[i].path = path
            /\ \A j \in 1..(i - 1) : fs[j].path # path) - 1
    ELSE -1

currentFileIndex(s) ==
  IF s.selectedFile = Null THEN -1
  ELSE FindIndex(changedFiles(s), s.selectedFile.path)

canGoPrev(s) == currentFileIndex(s) > 0

canGoNext(s) == currentFileIndex(s) < Len(changedFiles(s)) - 1

setDirectories(s, left, right) ==
  [s EXCEPT !.leftDir = left, !.rightDir = right]

\* a slip of setFileTree: the tree and the list are replaced, the counts
\* are added to those already there
setFileTreeAddsCounts(s, tree, fileList, total, added, deleted, modified) ==
  [s EXCEPT !.fileTree = tree,
            !.files = fileList,
            !.totalChanges = s.totalChanges + total,
            !.addedCount = s.addedCount + added,
            !.deletedCount = s.deletedCount + deleted,
            !.modifiedCount = s.modifiedCount + modified,
            !.treeError = NullStr,
            !.isLoadingTree = FALSE]

setFileTree(s, tree, fileList, total, added, deleted, modified) ==
  [s EXCEPT !.fileTree = tree,
            !.files = fileList,
            !.totalChanges = total,
            !.addedCount = added,
            !.deletedCount = deleted,
            !.modifiedCount = modified,
            !.treeError = NullStr,
            !.isLoadingTree = FALSE]

selectFile(s, file) ==
  [s EXCEPT !.selectedFile = file, !.currentDiff = Null, !.diffError = NullStr]

\* a slip of setDiff: the loading flag is left as it was
setDiffKeepsLoading(s, result) ==
  [s EXCEPT !.currentDiff = result, !.diffError = NullStr]

\* a slip of setDiff: the error of an earlier request is left in place
setDiffKeepsError(s, result) ==
  [s EXCEPT !.currentDiff = result, !.isLoadingDiff = FALSE]

setDiff(s, result) ==
  [s EXCEPT !.currentDiff = result, !.isLoadingDiff = FALSE, !.diffError = NullStr]

setDiffLoading(s, loading) == [s EXCEPT !.isLoadingDiff = loading]

\* a slip of setDiffError: the loading flag is left as it was
setDiffErrorKeepsLoading(s, error) ==
  [s EXCEPT !.diffError = error, !.currentDiff = Null]

\* a slip of setDiffError: the selection is dropped with the diff
setDiffErrorDropsSelection(s, error) ==
  [s EXCEPT !.diffError = error, !.isLoadingDiff = FALSE, !.currentDiff = Null,
            !.selectedFile = Null]

setDiffError(s, error) ==
  [s EXCEPT !.diffError = error, !.isLoadingDiff = FALSE, !.currentDiff = Null]

setTreeLoading(s, loading) == [s EXCEPT !.isLoadingTree = loading]

setTreeError(s, error) ==
  [s EXCEPT !.treeError = error, !.isLoadingTree = FALSE]

setViewOption(s, key, value) ==
  [s EXCEPT !.viewOptions[key] = value]

toggleViewOption(s, key) ==
  [s EXCEPT !.viewOptions[key] = ~s.viewOptions[key]]

\* a slip of setDeltaInstalled: the flag is set whatever the probe said
setDeltaInstalledAlways(s, installed) == [s EXCEPT !.deltaInstalled = TRUE]

setDeltaInstalled(s, installed) == [s EXCEPT !.deltaInstalled = installed]

\* changedFiles.value[k], k 0-based
FileAt(s, k) == changedFiles(s)[k + 1]

\* a slip of selectPrevFile: from the first file it wraps to the last
selectPrevFileWraps(s) ==
  IF canGoPrev(s) THEN selectFile(s, FileAt(s, currentFileIndex(s) - 1))
  ELSE IF Len(changedFiles(s)) > 0
    THEN selectFile(s, FileAt(s, Len(changedFiles(s)) - 1))
  ELSE s

selectPrevFile(s) ==
  IF canGoPrev(s) THEN selectFile(s, FileAt(s, currentFileIndex(s) - 1)) ELSE s

\* a slip of selectNextFile: the index is not advanced
selectNextFileStays(s) ==
  IF canGoNext(s) THEN selectFile(s, FileAt(s, currentFileIndex(s))) ELSE s

selectNextFile(s) ==
  IF canGoNext(s) THEN selectFile(s, FileAt(s, currentFileIndex(s) + 1)) ELSE s

\* a slip of selectFirstFile: the last changed file is taken
selectFirstFileTakesLast(s) ==
  IF Len(changedFiles(s)) > 0 THEN selectFile(s, FileAt(s, Len(changedFiles(s)) - 1)) ELSE s

selectFirstFile(s) ==
  IF Len(changedFiles(s)) > 0 THEN selectFile(s, FileAt(s, 0)) ELSE s

---------------------------------------------------------------------------
(* The back end, as section 6 of the specification gives it.  What is on   *)
(* disk does not change during a session: a command's result is a function *)
(* of its arguments, and any call may also fail.                           *)

Node(name, path, status, isDir, children, left, right) ==
  [ name |-> name, path |-> path, status |-> status, is_dir |-> isDir,
    children |-> children, left_path |-> left, right_path |-> right ]

\* the directory pairs the user compares
Pair1 == <<"/old1", "/new1">>
Pair2 == <<"/old2", "/new2">>
DirPairs == {Pair1, Pair2}
NoPair == <<NullStr, NullStr>>

NodeA == Node("a", "d/a", "Modified", FALSE, << >>, "/old1/d/a", "/new1/d/a")
NodeD == Node("d", "d", "Modified", TRUE, <<NodeA>>, "/old1/d", "/new1/d")
NodeB == Node("b", "b", "Added", FALSE, << >>, NullStr, "/new1/b")
NodeU == Node("u", "u", NullStr, FALSE, << >>, "/old1/u", "/new1/u")

\* get_file_tree(left_dir, right_dir): Pair1 differs in two files and holds
\* an unchanged one, Pair2 holds two identical directories
get_file_tree(leftDir, rightDir) ==
  IF <<leftDir, rightDir>> = Pair1
    THEN [ tree |-> <<NodeD, NodeB, NodeU>>,
           files |-> <<FileEntry(NodeA, "Modified"), FileEntry(NodeB, "Added")>>,
           total_changes |-> 2, added |-> 1, deleted |-> 0, modified |-> 1 ]
    ELSE [ tree |-> << >>, files |-> << >>,
           total_changes |-> 0, added |-> 0, deleted |-> 0, modified |-> 0 ]

\* A tree's shape: a file is [status |-> st], a directory [children |-> shapes].
FileShapes == {[status |-> st] : st \in {"Modified", "Added", "Deleted", NullStr}}

IsDirShape(shape) == "children" \in DOMAIN shape

RECURSIVE ForestsOfSize(_)
\* every sequence of shapes with k nodes in all
ForestsOfSize(k) ==
  IF k = 0 THEN {<< >>}
  ELSE UNION {
         LET firsts == (IF j = 1 THEN FileShapes ELSE {})
                         \cup {[children |-> c] : c \in ForestsOfSize(j - 1)}
         IN  {<<n>> \o rest : n \in firsts, rest \in ForestsOfSize(k - j)}
         : j \in 1..k}

Forests(n) == UNION {ForestsOfSize(k) : k \in 0..n}

RECURSIVE Positions(_)
\* where the nodes of a tree are: <<i>> is the i-th node of the top level,
\* <<i>> \o p the node at p below the directory <<i>>
Positions(nodes) ==
  UNION {{<<i>>} \cup (IF nodes[i].is_dir
                         THEN {<<i>> \o p : p \in Positions(nodes[i].children)}
                         ELSE {})
         : i \in 1..Len(nodes)}

RECURSIVE NodeAt(_, _)
NodeAt(nodes, p) ==
  IF Len(p) = 1 THEN nodes[p[1]] ELSE NodeAt(nodes[p[1]].children, Tail(p))

\* p comes before q in a depth-first walk that follows the children order
Before(p, q) ==
  \E k \in 1..Len(p) :
    /\ k <= Len(q)
    /\ \A m \in 1..(k - 1) : p[m] = q[m]
    /\ p[k] < q[k]

\* the files of a tree that carry a status
ChangedLeaves(nodes) ==
  {p \in Positions(nodes) : ~NodeAt(nodes, p).is_dir /\ NodeAt(nodes, p).status # NullStr}

RECURSIVE BuildTree(_, _, _, _, _)
\* the TreeNode sequence of the shapes, the i-th node of a level named n<i>
BuildTree(shapes, first, prefix, leftDir, rightDir) ==
  IF shapes = << >> THEN << >>
  ELSE LET shape == Head(shapes)
           name  == "n" \o ToString(first)
           path  == IF prefix = "" THEN name ELSE prefix \o "/" \o name
           left  == leftDir \o "/" \o path
           right == rightDir \o "/" \o path
           kids  == IF IsDirShape(shape)
                      THEN BuildTree(shape.children, 1, path, leftDir, rightDir)
                      ELSE << >>
           node  == IF IsDirShape(shape)
                      THEN Node(name, path,
                                IF ChangedLeaves(kids) = {} THEN NullStr ELSE "Modified",
                                TRUE, kids, left, right)
                      ELSE Node(name, path, shape.status, FALSE, << >>,
                                IF shape.status = "Added" THEN NullStr ELSE left,
                                IF shape.status = "Deleted" THEN NullStr ELSE right)
       IN  <<node>> \o BuildTree(Tail(shapes), first + 1, prefix, leftDir, rightDir)

\* the k-th of them (k from 1) in depth-first order
LeafAt(nodes, k) ==
  CHOOSE p \in ChangedLeaves(nodes) :
    Cardinality({q \in ChangedLeaves(nodes) : Before(q, p)}) = k - 1

\* the flattened leaf view of a tree
LeafEntries(nodes) ==
  [k \in 1..Cardinality(ChangedLeaves(nodes)) |->
     LET node == NodeAt(nodes, LeafAt(nodes, k))
     IN  [ path |-> node.path, name |-> node.name, status |-> node.status,
           is_dir |-> FALSE, left_path |-> node.left_path,
           right_path |-> node.right_path ]]

CountStatus(fs, status) == Cardinality({k \in 1..Len(fs) : fs[k].status = status})

\* the result of get_file_tree whose merged tree is `tree`
FileTreeResult(tree) ==
  LET fs == LeafEntries(tree)
  IN  [ tree |-> tree, files |-> fs, total_changes |-> Len(fs),
        added |-> CountStatus(fs, "Added"),
        deleted |-> CountStatus(fs, "Deleted"),
        modified |-> CountStatus(fs, "Modified") ]

TreeErrors == {"Failed to read directory"}
DiffErrors == {"Failed to run delta"}

\* String(error) of the string a rejected invoke() carries
JsString(error) == error

\* the unified markup of a file pair
Markup(leftPath, rightPath) ==
  IF rightPath = "/new1/d/a" THEN <<CtxLine, ChangedLine, CtxLine, AddedLine>>
  ELSE IF rightPath = "/new1/b" THEN <<AddedLine, AddedLine>>
  ELSE <<CtxLine>>

IsChangeClass(line) == line.cls \in {"removed", "added", "changed"}

\* ColumnSplitter (4.4): context in both columns, a one-sided line opposite
\* an empty placeholder row, a changed line split into old and new
\* a slip of the column splitter: no placeholder row opposite an added line
LeftColumnNoPlaceholder(lines) ==
  SelectSeq(lines, LAMBDA line : line.cls # "added")

LeftColumn(lines) ==
  [i \in 1..Len(lines) |-> IF lines[i].cls = "added" THEN EmptyRow ELSE lines[i]]

RightColumn(lines) ==
  [i \in 1..Len(lines) |-> IF lines[i].cls = "removed" THEN EmptyRow ELSE lines[i]]

\* HunkIndexer (4.5): a separator line, or the first changed line after
\* one or more context lines
HunkIndexer(lines) ==
  {i \in 1..Len(lines) :
     \/ lines[i].cls = "separator"
     \/ /\ IsChangeClass(lines[i])
        /\ i > 1
        /\ lines[i - 1].cls = "context"}

\* the DiffResult of get_diff for the markup `lines`
DiffResult(lines, options, bothExist) ==
  [ html        |-> lines,
    has_changes |-> \E i \in 1..Len(lines) : IsChangeClass(lines[i]),
    hunk_count  |-> Cardinality(HunkIndexer(lines)),
    left_html   |-> IF options.side_by_side /\ bothExist
                      THEN Some(LeftColumn(lines)) ELSE None,
    right_html  |-> IF options.side_by_side /\ bothExist
                      THEN Some(RightColumn(lines)) ELSE None ]

get_diff(leftPath, rightPath, options) ==
  DiffResult(Markup(leftPath, rightPath), options,
             leftPath # NullStr /\ rightPath # NullStr)

---------------------------------------------------------------------------
(* useDiff.  loadDiff runs to its invoke() in the caller's task; what      *)
(* follows the await is the action DiffResolve or DiffReject.  w is the    *)
(* pair of the store and the get_diff calls in flight.                     *)

\* a loadDiff call awaiting get_diff: its argument, the options invoke()
\* serialized, and whether the selectedFile watcher of the mounted DiffView
\* made the call (its continuation then rescans the hunks)
DiffReq(file, options, watch) ==
  [file |-> file, options |-> options, watch |-> watch]

NoReq == [none |-> TRUE]

loadDiff(w, file, watch) ==
  LET s == selectFile(setDiffLoading(w.store, TRUE), file)
  IN  [store |-> s, reqs |-> Append(w.reqs, DiffReq(file, s.viewOptions, watch))]

\* a slip of refreshDiff: the request is issued without selectFile, so the
\* diff rendered under the old options stays in the store
refreshDiffKeepsDiff(w) ==
  IF w.store.selectedFile = Null THEN w
  ELSE [store |-> setDiffLoading(w.store, TRUE),
        reqs  |-> Append(w.reqs, DiffReq(w.store.selectedFile, w.store.viewOptions, FALSE))]

refreshDiff(w) ==
  IF w.store.selectedFile = Null THEN w
  ELSE loadDiff(w, w.store.selectedFile, FALSE)

toggleOption(w, key) ==
  refreshDiff([w EXCEPT !.store = toggleViewOption(w.store, key)])

\* loadFileTree up to its invoke()
loadFileTreeStart(s, leftDir, rightDir) ==
  setDirectories(setTreeLoading(s, TRUE), leftDir, rightDir)

\* loadFileTree after get_file_tree resolved
loadFileTreeDone(s, result) ==
  LET s1 == setFileTree(s, result.tree, result.files, result.total_changes,
                        result.added, result.deleted, result.modified)
  IN  IF Len(result.files) > 0 THEN selectFirstFile(s1) ELSE s1

---------------------------------------------------------------------------
(* DiffView.vue.  The component is mounted exactly while the directory     *)
(* picker is hidden (App.vue's v-if / v-else); its refs start anew at      *)
(* every mount.  hunkElements holds the indices, among the lines scanned,  *)
(* of the elements findHunks kept; the empty list stands for null.         *)

InitView == [currentHunkIndex |-> 0, hunkElements |-> << >>]

isSideBySide(s) ==
  /\ s.currentDiff.left_html # None /\ s.currentDiff.left_html[1] # << >>
  /\ s.currentDiff.right_html # None /\ s.currentDiff.right_html[1] # << >>

\* the .diff-line elements below diffContainer: the template's v-if chain
RenderedLines(s) ==
  IF s.isLoadingDiff THEN << >>
  ELSE IF Truthy(s.diffError) THEN << >>
  ELSE IF s.selectedFile = Null THEN << >>
  ELSE IF s.currentDiff # Null /\ isSideBySide(s)
    THEN s.currentDiff.left_html[1] \o s.currentDiff.right_html[1]
  ELSE IF s.currentDiff # Null THEN s.currentDiff.html
  ELSE << >>

findHunks(v, s) == [v EXCEPT !.hunkElements = HunkList(RenderedLines(s))]

\* a slip of the template: the two-column branch tests the option, not the
\* column markups
DiffPaneByOption(s) ==
  IF s.isLoadingDiff THEN "loading"
  ELSE IF Truthy(s.diffError) THEN "error"
  ELSE IF s.selectedFile = Null THEN "no-selection"
  ELSE IF s.currentDiff # Null /\ s.viewOptions.side_by_side THEN "side-by-side"
  ELSE IF s.currentDiff # Null THEN "unified"
  ELSE "nothing"

\* which branch of the template's v-if / v-else-if chain is rendered below
\* diffContainer; the chain has no v-else, so it may render nothing
DiffPane(s) ==
  IF s.isLoadingDiff THEN "loading"
  ELSE IF Truthy(s.diffError) THEN "error"
  ELSE IF s.selectedFile = Null THEN "no-selection"
  ELSE IF s.currentDiff # Null /\ isSideBySide(s) THEN "side-by-side"
  ELSE IF s.currentDiff # Null THEN "unified"
  ELSE "nothing"

\* store.currentDiff?.html
HtmlOf(s) == IF s.currentDiff = Null THEN None ELSE Some(s.currentDiff.html)

\* watch(() => store.currentDiff?.html): rescans after the store went from s to t
watchHtml(v, s, t) == IF HtmlOf(s) # HtmlOf(t) THEN findHunks(v, t) ELSE v

\* the rest of watch(() => store.selectedFile) once its loadDiff has settled
watchSelectedFileDone(v, t) == [findHunks(v, t) EXCEPT !.currentHunkIndex = 0]

\* watch(() => store.selectedFile): runs when the ref was given another object
watchSelectedFile(w, mounted, changed) ==
  IF mounted /\ changed /\ w.store.selectedFile # Null
    THEN loadDiff(w, w.store.selectedFile, TRUE)
    ELSE w

scrollToHunk(v, index) ==
  IF v.hunkElements # << >> /\ index >= 0 /\ index < Len(v.hunkElements)
    THEN [v EXCEPT !.currentHunkIndex = index]
    ELSE v

nextHunk(v) ==
  IF v.hunkElements # << >> /\ v.currentHunkIndex < Len(v.hunkElements) - 1
    THEN scrollToHunk(v, v.currentHunkIndex + 1)
    ELSE v

prevHunk(v) ==
  IF v.hunkElements # << >> /\ v.currentHunkIndex > 0
    THEN scrollToHunk(v, v.currentHunkIndex - 1)
    ELSE v

---------------------------------------------------------------------------
(* The state after construction, and one action per task.                  *)

Init ==
  /\ store = InitStore
  /\ app = [showDirectoryPicker |-> TRUE, initPc |-> "check_delta", deltaChecked |-> None]
  /\ view = InitView
  /\ diffReqs = << >>
  /\ treeReqs = << >>
  /\ diffFrom = NoReq
  /\ treeFrom = NoPair
  /\ inputs = 0

\* the step handles one more user event
UserInput == inputs < MaxInputs /\ inputs' = inputs + 1

Remove(seq, i) == SubSeq(seq, 1, i - 1) \o SubSeq(seq, i + 1, Len(seq))

\* DiffView, the toolbar and the file tree are on screen
Mounted == ~app.showDirectoryPicker

World == [store |-> store, reqs |-> diffReqs]

\* the handler leaves the store and the calls in flight as w, the view as v
Settle(w, v) ==
  /\ Len(w.reqs) <= MaxDiffReqs
  /\ store' = w.store
  /\ diffReqs' = w.reqs
  /\ view' = v
  /\ diffFrom' = IF w.store.currentDiff = Null THEN NoReq ELSE diffFrom

\* initialize(): check_delta resolved, checkDeltaInstalled returns its value
CheckDeltaResolve(installed) ==
  /\ app.initPc = "check_delta"
  /\ store' = setDeltaInstalled(store, installed)
  /\ app' = [app EXCEPT !.initPc = "get_app_args", !.deltaChecked = Some(installed)]
  /\ UNCHANGED <<view, diffReqs, treeReqs, diffFrom, treeFrom, inputs>>

\* initialize(): check_delta rejected, caught by checkDeltaInstalled, which
\* returns false
CheckDeltaReject ==
  /\ app.initPc = "check_delta"
  /\ store' = setDeltaInstalled(store, FALSE)
  /\ app' = [app EXCEPT !.initPc = "get_app_args", !.deltaChecked = Some(FALSE)]
  /\ UNCHANGED <<view, diffReqs, treeReqs, diffFrom, treeFrom, inputs>>

\* initialize(): getAppArgs gave fewer than three arguments (or failed)
GetAppArgsNone ==
  /\ app.initPc = "get_app_args"
  /\ app' = [app EXCEPT !.initPc = "done"]
  /\ UNCHANGED <<store, view, diffReqs, treeReqs, diffFrom, treeFrom, inputs>>

\* initialize(): two directories on the command line
GetAppArgsDirs(pair) ==
  /\ app.initPc = "get_app_args"
  /\ Len(treeReqs) < MaxTreeReqs
  /\ app' = [app EXCEPT !.showDirectoryPicker = FALSE, !.initPc = "done"]
  /\ store' = loadFileTreeStart(store, pair[1], pair[2])
  /\ treeReqs' = Append(treeReqs, pair)
  /\ UNCHANGED <<view, diffReqs, diffFrom, treeFrom, inputs>>

\* the picker's Compare Directories button
HandleLoadDirs(pair) ==
  /\ UserInput
  /\ app.showDirectoryPicker
  /\ Len(treeReqs) < MaxTreeReqs
  /\ app' = [app EXCEPT !.showDirectoryPicker = FALSE]
  /\ store' = loadFileTreeStart(store, pair[1], pair[2])
  /\ treeReqs' = Append(treeReqs, pair)
  /\ UNCHANGED <<view, diffReqs, diffFrom, treeFrom>>

\* the header's Change directories button: DiffView is unmounted, and the
\* watcher continuations of its loadDiff calls act on refs nothing shows
HandleShowPicker ==
  /\ UserInput
  /\ Mounted
  /\ app' = [app EXCEPT !.showDirectoryPicker = TRUE]
  /\ view' = InitView
  /\ diffReqs' = [i \in 1..Len(diffReqs) |-> [diffReqs[i] EXCEPT !.watch = FALSE]]
  /\ UNCHANGED <<store, treeReqs, diffFrom, treeFrom>>

\* get_file_tree resolved: the rest of loadFileTree, then the watchers
TreeResolveWith(i, result) ==
  LET pair    == treeReqs[i]
      s1      == loadFileTreeDone(store, result)
      changed == Len(result.files) > 0 /\ Len(flattenTree(result.tree)) > 0
      w       == watchSelectedFile([store |-> s1, reqs |-> diffReqs], Mounted, changed)
  IN  /\ Settle(w, IF Mounted THEN watchHtml(view, store, w.store) ELSE view)
      /\ treeReqs' = Remove(treeReqs, i)
      /\ treeFrom' = pair
      /\ UNCHANGED <<app, inputs>>

TreeResolve(i) ==
  TreeResolveWith(i, get_file_tree(treeReqs[i][1], treeReqs[i][2]))

\* get_file_tree rejected: loadFileTree's catch
TreeReject(i, error) ==
  /\ store' = setTreeError(store, JsString(error))
  /\ treeReqs' = Remove(treeReqs, i)
  /\ UNCHANGED <<app, view, diffReqs, diffFrom, treeFrom, inputs>>

RECURSIVE TreeNodes(_)
\* every node the file tree shows
TreeNodes(nodes) ==
  IF nodes = << >> THEN {}
  ELSE {Head(nodes)} \cup TreeNodes(Head(nodes).children) \cup TreeNodes(Tail(nodes))

\* the tree is on screen: FileTree.vue's v-if chain
TreeShown ==
  /\ Mounted
  /\ ~store.isLoadingTree
  /\ ~Truthy(store.treeError)
  /\ Len(store.fileTree) # 0

\* a click on a file of the tree: handleFileClick calls loadDiff, and the
\* selectedFile watcher, given a new object, calls it again
HandleFileClick(node) ==
  /\ UserInput
  /\ TreeShown
  /\ ~node.is_dir
  /\ LET file == FileEntry(node, IF Truthy(node.status) THEN node.status ELSE "Unchanged")
         w    == watchSelectedFile(loadDiff(World, file, FALSE), TRUE, TRUE)
     IN  Settle(w, watchHtml(view, store, w.store))
  /\ UNCHANGED <<app, treeReqs, treeFrom>>

Keys == {"j", "k", "n", "N"}

\* the switch of handleKeydown
handleKeydown(s, key) ==
  IF key = "j" THEN selectNextFile(s)
  ELSE IF key = "k" THEN selectPrevFile(s)
  ELSE s

\* a key pressed outside an input, while DiffView listens
HandleKeydown(key) ==
  /\ UserInput
  /\ Mounted
  /\ LET changed == \/ key = "j" /\ canGoNext(store)
                    \/ key = "k" /\ canGoPrev(store)
         w == watchSelectedFile([store |-> handleKeydown(store, key), reqs |-> diffReqs],
                                TRUE, changed)
     IN  Settle(w, watchHtml(view, store, w.store))
  /\ UNCHANGED <<app, treeReqs, treeFrom>>

\* toggleSideBySide, toggleLineNumbers, toggleCollapsed, toggleWhitespace
Toggle(key) ==
  /\ UserInput
  /\ Mounted
  /\ LET w == toggleOption(World, key)
     IN  Settle(w, watchHtml(view, store, w.store))
  /\ UNCHANGED <<app, treeReqs, treeFrom>>

ToggleSideBySide == Toggle("side_by_side")

ToggleLineNumbers == Toggle("line_numbers")

ToggleCollapsed == Toggle("collapsed")

ToggleWhitespace == Toggle("show_whitespace")

\* nextHunk and prevHunk, which DiffView exposes
NextHunk ==
  /\ UserInput
  /\ Mounted
  /\ view' = nextHunk(view)
  /\ UNCHANGED <<store, app, diffReqs, treeReqs, diffFrom, treeFrom>>

PrevHunk ==
  /\ UserInput
  /\ Mounted
  /\ view' = prevHunk(view)
  /\ UNCHANGED <<store, app, diffReqs, treeReqs, diffFrom, treeFrom>>

\* the view once the loadDiff call req has settled and left the store as t
ViewAfterDiff(req, t) ==
  IF req.watch THEN watchSelectedFileDone(view, t)
  ELSE IF Mounted THEN watchHtml(view, store, t)
  ELSE view

\* get_diff resolved with result: setDiff, then the watchers
ResolveWith(i, result) ==
  LET t == setDiff(store, result)
  IN  /\ store' = t
      /\ diffReqs' = Remove(diffReqs, i)
      /\ view' = ViewAfterDiff(diffReqs[i], t)
      /\ diffFrom' = diffReqs[i]
      /\ UNCHANGED <<app, treeReqs, treeFrom, inputs>>

DiffResolve(i) ==
  LET file == diffReqs[i].file
  IN  /\ ~(file.left_path = NullStr /\ file.right_path = NullStr)
      /\ ResolveWith(i, get_diff(file.left_path, file.right_path, diffReqs[i].options))

\* get_diff rejected: loadDiff's catch, then the watchers
DiffReject(i, error) ==
  LET t == setDiffError(store, JsString(error))
  IN  /\ store' = t
      /\ diffReqs' = Remove(diffReqs, i)
      /\ view' = ViewAfterDiff(diffReqs[i], t)
      /\ diffFrom' = NoReq
      /\ UNCHANGED <<app, treeReqs, treeFrom, inputs>>

Next ==
  \/ \E installed \in BOOLEAN : CheckDeltaResolve(installed)
  \/ CheckDeltaReject
  \/ GetAppArgsNone
  \/ \E pair \in DirPairs : GetAppArgsDirs(pair)
  \/ \E pair \in DirPairs : HandleLoadDirs(pair)
  \/ HandleShowPicker
  \/ \E i \in 1..Len(treeReqs) : TreeResolve(i)
  \/ \E i \in 1..Len(treeReqs), error \in TreeErrors : TreeReject(i, error)
  \/ \E node \in TreeNodes(store.fileTree) : HandleFileClick(node)
  \/ \E key \in Keys : HandleKeydown(key)
  \/ ToggleSideBySide
  \/ ToggleLineNumbers
  \/ ToggleCollapsed
  \/ ToggleWhitespace
  \/ NextHunk
  \/ PrevHunk
  \/ \E i \in 1..Len(diffReqs) : DiffResolve(i)
  \/ \E i \in 1..Len(diffReqs), error \in DiffErrors : DiffReject(i, error)

Spec == Init /\ [][Next]_vars

\* store.setViewOption(key, value) called on the store itself.  The store
\* exports the action, and no component, composable or watcher calls it or
\* reacts to it: the option is written, no diff is refreshed.
SetViewOption(key, value) ==
  /\ UserInput
  /\ store' = setViewOption(store, key, value)
  /\ UNCHANGED <<app, view, diffReqs, treeReqs, diffFrom, treeFrom>>

\* a step of the application, or a call of an exported store action that
\* the application itself never makes
StoreNext ==
  \/ Next
  \/ \E key \in OptionKeys, value \in BOOLEAN : SetViewOption(key, value)

\* the application with its store also driven through its exported actions
SpecStore == Init /\ [][StoreNext]_vars

\* a get_diff call in flight settles
DiffSettles ==
  \E i \in 1..Len(diffReqs) :
    DiffResolve(i) \/ \E error \in DiffErrors : DiffReject(i, error)

\* the state after construction of a session that has MaxLiveInputs user
\* events to come: the rest of the budget counts as used
LiveInit ==
  /\ store = InitStore
  /\ app = [showDirectoryPicker |-> TRUE, initPc |-> "check_delta", deltaChecked |-> None]
  /\ view = InitView
  /\ diffReqs = << >>
  /\ treeReqs = << >>
  /\ diffFrom = NoReq
  /\ treeFrom = NoPair
  /\ inputs = MaxInputs - MaxLiveInputs

\* the application when every get_diff invocation eventually resolves or
\* rejects
SpecLive == LiveInit /\ [][Next]_vars /\ WF_vars(DiffSettles)

---------------------------------------------------------------------------
(* findHunks on every stream of rendered lines.  The states of SpecHunks   *)
(* are states of Spec (Pair1 is loaded, a file is selected, its get_diff   *)
(* is in flight) except that the markup get_diff returns is any stream of  *)
(* at most MaxLines lines.                                                 *)

HunkFiles == {FileEntry(NodeA, "Modified"), FileEntry(NodeB, "Added")}

HunkInit ==
  \E file \in HunkFiles, sideBySide \in BOOLEAN, watch \in BOOLEAN :
    LET s0 == loadFileTreeDone(loadFileTreeStart(InitStore, Pair1[1], Pair1[2]),
                               get_file_tree(Pair1[1], Pair1[2]))
        s1 == [s0 EXCEPT !.viewOptions.side_by_side = sideBySide]
        w  == loadDiff([store |-> s1, reqs |-> << >>], file, watch)
    IN  /\ store = w.store
        /\ diffReqs = w.reqs
        /\ app = [showDirectoryPicker |-> FALSE, initPc |-> "done",
                  deltaChecked |-> Some(TRUE)]
        /\ view = InitView
        /\ treeReqs = << >>
        /\ diffFrom = NoReq
        /\ treeFrom = Pair1
        /\ inputs = 0

\* get_diff resolved with the markup `lines`
DiffResolveLines(lines) ==
  /\ diffReqs # << >>
  /\ LET req == diffReqs[1]
     IN  ResolveWith(1, DiffResult(lines, req.options,
                       req.file.left_path # NullStr /\ req.file.right_path # NullStr))

HunkNext == \E lines \in Streams(MaxLines) : DiffResolveLines(lines)

SpecHunks == HunkInit /\ [][HunkNext]_vars

---------------------------------------------------------------------------
(* flattenTree on every tree.  The states of SpecTree are states of Spec   *)
(* (Compare Directories was pressed in a new session, the get_file_tree    *)
(* call is in flight, the picker is hidden or was opened again) except     *)
(* that the tree get_file_tree returns is any tree of at most MaxTreeNodes *)
(* nodes.                                                                  *)

TreeInit ==
  \E pair \in DirPairs, picker \in BOOLEAN :
    /\ store = loadFileTreeStart(InitStore, pair[1], pair[2])
    /\ app = [showDirectoryPicker |-> picker, initPc |-> "done",
              deltaChecked |-> Some(TRUE)]
    /\ view = InitView
    /\ diffReqs = << >>
    /\ treeReqs = <<pair>>
    /\ diffFrom = NoReq
    /\ treeFrom = NoPair
    /\ inputs = 0

\* get_file_tree resolved with the tree of the shapes
TreeResolveShapes(shapes) ==
  /\ treeReqs # << >>
  /\ TreeResolveWith(1, FileTreeResult(
        BuildTree(shapes, 1, "", treeReqs[1][1], treeReqs[1][2])))

TreeNext == \E shapes \in Forests(MaxTreeNodes) : TreeResolveShapes(shapes)

SpecTree == TreeInit /\ [][TreeNext]_vars

---------------------------------------------------------------------------
(* The claims. *)

Range(seq) == {seq[i] : i \in 1..Len(seq)}

\* a changed line, a context line: how the claims class a rendered line
IsChanged(line) == isChangedLine(line) /\ ~isHunkSep(line)
IsContext(line) == ~isChangedLine(line) /\ ~isHunkSep(line)

\* C1: whenever currentDiff is non-null it is the result of a request made
\* for the currently selected file (a result for another file is never stored).
C1_NoStaleDiff ==
  store.currentDiff # Null =>
    (diffFrom # NoReq /\ diffFrom.file = store.selectedFile)

\* C2: once no get_diff request is outstanding, a displayed currentDiff is the
\* result of the request issued with the current viewOptions.
C2_DiffUnderCurrentOptions ==
  (diffReqs = << >> /\ store.currentDiff # Null) =>
    (diffFrom # NoReq /\ diffFrom.options = store.viewOptions)

\* C3: at most one get_diff request is in flight at any time.
C3_AtMostOneInFlight == Len(diffReqs) <= 1

\* C4: a toggle flips exactly its option; with a file selected it clears
\* currentDiff and issues one get_diff request for that file's paths with the
\* new options; with no file selected it issues none.
C4_ToggleRegenerates ==
  [][\A key \in OptionKeys : Toggle(key) =>
       /\ store'.viewOptions = [store.viewOptions EXCEPT ![key] = ~store.viewOptions[key]]
       /\ IF store.selectedFile = Null
            THEN /\ diffReqs' = diffReqs
                 /\ store' = [store EXCEPT !.viewOptions = store'.viewOptions]
            ELSE /\ store'.currentDiff = Null
                 /\ store'.selectedFile = store.selectedFile
                 /\ Len(diffReqs') = Len(diffReqs) + 1
                 /\ SubSeq(diffReqs', 1, Len(diffReqs)) = diffReqs
                 /\ LET req == diffReqs'[Len(diffReqs')]
                    IN  /\ req.file.left_path = store.selectedFile.left_path
                        /\ req.file.right_path = store.selectedFile.right_path
                        /\ req.options = store'.viewOptions]_vars

\* C4 witness: a toggle acted on a selected file: its request is the last in
\* flight, carries the flipped options, and currentDiff is cleared.
C4_Witness ==
  /\ store.selectedFile # Null
  /\ store.viewOptions # InitStore.viewOptions
  /\ store.currentDiff = Null
  /\ diffReqs # << >>
  /\ diffReqs[Len(diffReqs)].options = store.viewOptions
  /\ ~diffReqs[Len(diffReqs)].watch
  /\ Len(diffReqs) = 2
  /\ diffReqs[1].options # store.viewOptions

\* C5: when a loadFileTree call completes, by success or by failure, the tree
\* the store holds is not one obtained for another directory pair.
C5_TreeDiscarded ==
  [][\A i \in 1..Len(treeReqs) :
       (TreeResolve(i) \/ \E error \in TreeErrors : TreeReject(i, error)) =>
         treeFrom' \in {NoPair, treeReqs[i]}]_vars

\* C6: when get_diff rejects, diffError holds the message, currentDiff is
\* null and isLoadingDiff is false.
C6_RejectSurfaces ==
  [][\A i \in 1..Len(diffReqs), error \in DiffErrors : DiffReject(i, error) =>
       /\ store'.diffError = JsString(error)
       /\ store'.currentDiff = Null
       /\ store'.isLoadingDiff = FALSE]_vars

\* C6 witness: a rejected get_diff has left its message in the store.
C6_Witness ==
  /\ store.diffError \in DiffErrors
  /\ store.currentDiff = Null
  /\ ~store.isLoadingDiff
  /\ diffReqs = << >>

\* C7: the completion of a failed get_diff changes only diffError,
\* currentDiff and isLoadingDiff of the store.
C7_RejectFrame ==
  [][\A i \in 1..Len(diffReqs), error \in DiffErrors : DiffReject(i, error) =>
       store' = [store EXCEPT !.diffError = store'.diffError,
                              !.currentDiff = store'.currentDiff,
                              !.isLoadingDiff = store'.isLoadingDiff]]_vars

\* C7 witness: a get_diff failed while a tree, a selection and another
\* request were there to be left alone.
C7_Witness ==
  /\ store.diffError \in DiffErrors
  /\ store.fileTree # << >>
  /\ store.selectedFile # Null
  /\ store.viewOptions # InitStore.viewOptions
  /\ diffReqs # << >>

\* C8: for every displayed diff, hunk_count equals the number of entries
\* findHunks builds from the diff's rendered lines.
C8_HunkCountMatches ==
  store.currentDiff # Null =>
    store.currentDiff.hunk_count = Len(view.hunkElements)

\* C9 as claimed: a line is recorded exactly when it is a separator, or a
\* changed line immediately after a context line.
C9_HunkStartsAsClaimed ==
  store.currentDiff # Null =>
    LET L == RenderedLines(store)
    IN  \A i \in 1..Len(L) :
          (i \in Range(view.hunkElements)) <=>
            \/ isHunkSep(L[i])
            \/ IsChanged(L[i]) /\ i > 1 /\ IsContext(L[i - 1])

\* C9 amended: a line is recorded exactly when it is a separator, or a
\* changed line not immediately preceded by a changed line (it is first,
\* or follows a separator, or follows a context line); in stream order.
C9_HunkStarts ==
  store.currentDiff # Null =>
    LET L == RenderedLines(store)
        H == view.hunkElements
    IN  /\ \A i \in 1..Len(L) :
             (i \in Range(H)) <=>
               \/ isHunkSep(L[i])
               \/ IsChanged(L[i]) /\ (i = 1 \/ ~IsChanged(L[i - 1]))
        /\ \A j \in 1..(Len(H) - 1) : H[j] < H[j + 1]

\* C9 witness: a separator, a changed line right after it (recorded) and a
\* changed line after that one (not recorded).
C9_Witness ==
  /\ store.currentDiff # Null
  /\ LET L == RenderedLines(store)
     IN  /\ Len(L) = 3
         /\ isHunkSep(L[1]) /\ IsChanged(L[2]) /\ IsChanged(L[3])
  /\ view.hunkElements = <<1, 2>>

\* C10: rendered lines with no changed line give an empty hunk list.
C10_NoChangedNoHunks ==
  LET L == RenderedLines(store)
  IN  (store.currentDiff # Null /\ \A i \in 1..Len(L) : ~isChangedLine(L[i])) =>
        view.hunkElements = << >>

\* the maximal runs of changed lines of L, as pairs <<first, last>>
ChangedRuns(L) ==
  {r \in (1..Len(L)) \X (1..Len(L)) :
     /\ r[1] <= r[2]
     /\ \A i \in r[1]..r[2] : IsChanged(L[i])
     /\ (r[1] = 1 \/ ~IsChanged(L[r[1] - 1]))
     /\ (r[2] = Len(L) \/ ~IsChanged(L[r[2] + 1]))}

\* C11: of two adjacent changed lines (neither a separator) the second is
\* never recorded as a hunk start, and every maximal run of changed lines
\* has exactly one entry in the hunk list.
C11_RunsShareOneHunk ==
  store.currentDiff # Null =>
    LET L == RenderedLines(store)
        H == view.hunkElements
    IN  /\ \A i \in 2..Len(L) :
             (IsChanged(L[i - 1]) /\ IsChanged(L[i])) => i \notin Range(H)
        /\ \A r \in ChangedRuns(L) :
             Cardinality({j \in 1..Len(H) : H[j] \in r[1]..r[2]}) = 1

\* C11 witness: a context line and then two changed lines were scanned; the
\* first changed line is the run's one entry.
C11_Witness ==
  /\ store.currentDiff # Null
  /\ LET L == RenderedLines(store)
     IN  /\ Len(L) = 3
         /\ IsContext(L[1]) /\ IsChanged(L[2]) /\ IsChanged(L[3])
  /\ view.hunkElements = <<2>>

\* the paths of the changed files are pairwise distinct
DistinctPaths(fs) ==
  \A i, j \in 1..Len(fs) : fs[i].path = fs[j].path => i = j

\* C12: with the selected file at index i of changedFiles (n files, paths
\* pairwise distinct), j selects the file at i+1 when i < n-1, k selects the
\* file at i-1 when i > 0, and k after j selects the file j started from.
C12_FileKeys ==
  [][\A key \in {"j", "k"} : HandleKeydown(key) =>
       LET fs == changedFiles(store)
           n  == Len(fs)
           i  == currentFileIndex(store)
       IN  (DistinctPaths(fs) /\ i >= 0) =>
             /\ (key = "j" /\ i < n - 1) =>
                   /\ store'.selectedFile = fs[i + 2]
                   /\ currentFileIndex(store') = i + 1
                   /\ handleKeydown(store', "k").selectedFile = store.selectedFile
             /\ (key = "k" /\ i > 0) =>
                   /\ store'.selectedFile = fs[i]
                   /\ currentFileIndex(store') = i - 1]_vars

\* C12 witness: j and then k were pressed on the loaded tree: the watcher's
\* requests for the second and then the first changed file are in flight,
\* and the first changed file is selected again.
C12_Witness ==
  /\ inputs = 3
  /\ Len(changedFiles(store)) = 2
  /\ currentFileIndex(store) = 0
  /\ Len(diffReqs) = 2
  /\ diffReqs[1].watch /\ diffReqs[1].file = changedFiles(store)[2]
  /\ diffReqs[2].watch /\ diffReqs[2].file = changedFiles(store)[1]

\* C13: with a non-empty hunk list and current hunk index i, the key n makes
\* i+1 current when i is not the last hunk, and the key N makes i-1 current
\* when i > 0.
C13_HunkKeys ==
  [][\A key \in {"n", "N"} : HandleKeydown(key) =>
       LET i == view.currentHunkIndex
           n == Len(view.hunkElements)
       IN  /\ (key = "n" /\ n > 0 /\ i < n - 1) => view'.currentHunkIndex = i + 1
           /\ (key = "N" /\ n > 0 /\ i > 0) => view'.currentHunkIndex = i - 1]_vars

\* C14: changedFiles is exactly the non-directory nodes of fileTree that carry
\* a status, in depth-first order following the children order, each entry
\* with the node's path, name, status, left_path, right_path and is_dir false.
C14_LeavesOf(T, fs) ==
      /\ Len(fs) = Cardinality(ChangedLeaves(T))
      /\ \A k \in 1..Len(fs) :
           LET node == NodeAt(T, LeafAt(T, k))
           IN  /\ ~node.is_dir /\ node.status # NullStr
               /\ fs[k] = [ path |-> node.path, name |-> node.name,
                            status |-> node.status, is_dir |-> FALSE,
                            left_path |-> node.left_path,
                            right_path |-> node.right_path ]
      /\ \A k \in 1..(Len(fs) - 1) : Before(LeafAt(T, k), LeafAt(T, k + 1))

\* C14, with its last part: changedFiles changes only when fileTree changes.
C14_FlattenedLeaves ==
  /\ [](C14_LeavesOf(store.fileTree, changedFiles(store)))
  /\ [][store'.fileTree = store.fileTree =>
          changedFiles(store') = changedFiles(store)]_vars

\* C14 witness: a tree with a file carrying a status after a directory that
\* holds a status-less file and a file carrying a status.
C14_Witness ==
  /\ Len(store.fileTree) = 2
  /\ store.fileTree[1].is_dir
  /\ Len(store.fileTree[1].children) = 2
  /\ store.fileTree[1].children[1].status = NullStr
  /\ ~store.fileTree[1].children[1].is_dir
  /\ ~store.fileTree[2].is_dir
  /\ Len(changedFiles(store)) = 2
  /\ changedFiles(store)[1].path = "n1/n2"
  /\ changedFiles(store)[2].path = "n2"

\* C15: fileTree, files and the four counts are those of one get_file_tree
\* result (or all at their initial values), and currentDiff is null or one
\* whole get_diff result.
C15_WholeSnapshots ==
  /\ IF treeFrom = NoPair
       THEN /\ store.fileTree = InitStore.fileTree
            /\ store.files = InitStore.files
            /\ store.totalChanges = 0 /\ store.addedCount = 0
            /\ store.deletedCount = 0 /\ store.modifiedCount = 0
       ELSE LET result == get_file_tree(treeFrom[1], treeFrom[2])
            IN  /\ store.fileTree = result.tree
                /\ store.files = result.files
                /\ store.totalChanges = result.total_changes
                /\ store.addedCount = result.added
                /\ store.deletedCount = result.deleted
                /\ store.modifiedCount = result.modified
  /\ store.currentDiff # Null =>
       /\ diffFrom # NoReq
       /\ store.currentDiff = get_diff(diffFrom.file.left_path,
                                       diffFrom.file.right_path, diffFrom.options)

\* C15 witness: the tree of the first pair, with its two changed files, was
\* replaced by the empty result of the second pair while the diff of a file
\* of the first is held.
C15_Witness ==
  /\ treeFrom = Pair2
  /\ store.selectedFile # Null
  /\ store.currentDiff # Null
  /\ store.fileTree = << >>
  /\ store.totalChanges = 0

\* C16: checkDeltaInstalled always resolves to a boolean: when check_delta
\* rejects it resolves to false and sets deltaInstalled to false, when
\* check_delta resolves it resolves to, and sets deltaInstalled to, the value.
C16_ProbeNeverFails ==
  /\ [](app.initPc # "check_delta" => app.deltaChecked \in {Some(TRUE), Some(FALSE)})
  /\ [][/\ \A installed \in BOOLEAN : CheckDeltaResolve(installed) =>
             /\ store'.deltaInstalled = installed
             /\ app'.deltaChecked = Some(installed)
             /\ app'.initPc = "get_app_args"
        /\ CheckDeltaReject =>
             /\ store'.deltaInstalled = FALSE
             /\ app'.deltaChecked = Some(FALSE)
             /\ app'.initPc = "get_app_args"]_vars

\* C16 witness: the probe reported absence and initialize() went on to its
\* command-line arguments.
C16_Witness ==
  /\ app.deltaChecked = Some(FALSE)
  /\ ~store.deltaInstalled
  /\ app.initPc = "done"

\* C17: the two columns the ColumnSplitter produces have the same number of
\* rows: a context line is in both, a removed-only line is on the left
\* opposite an empty placeholder, an added-only line the mirror, a changed
\* line is on both sides.
C17_EqualRows ==
  (store.currentDiff # Null /\ store.currentDiff.left_html # None) =>
    LET lines == store.currentDiff.html
        left  == store.currentDiff.left_html[1]
        right == store.currentDiff.right_html[1]
    IN  /\ store.currentDiff.right_html # None
        /\ Len(left) = Len(right)
        /\ Len(left) = Len(lines)
        /\ \A i \in 1..Len(lines) :
             /\ lines[i].cls \in {"context", "changed"} =>
                  (left[i] = lines[i] /\ right[i] = lines[i])
             /\ lines[i].cls = "removed" =>
                  (left[i] = lines[i] /\ right[i] = EmptyRow)
             /\ lines[i].cls = "added" =>
                  (left[i] = EmptyRow /\ right[i] = lines[i])

\* C17 witness: a removed-only, an added-only and a context line were split
\* into two columns of three rows.
C17_Witness ==
  /\ store.currentDiff # Null
  /\ store.currentDiff.html = <<RemovedLine, AddedLine, CtxLine>>
  /\ store.currentDiff.left_html = Some(<<RemovedLine, EmptyRow, CtxLine>>)
  /\ store.currentDiff.right_html = Some(<<EmptyRow, AddedLine, CtxLine>>)

\* C18: whenever no get_file_tree request is outstanding and treeError is
\* null, fileTree and the counts are the result of get_file_tree for the
\* stored (leftDir, rightDir) pair.
C18_TreeOfStoredPair ==
  (treeReqs = << >> /\ store.treeError = NullStr /\ store.leftDir # NullStr) =>
    LET result == get_file_tree(store.leftDir, store.rightDir)
    IN  /\ store.fileTree = result.tree
        /\ store.totalChanges = result.total_changes
        /\ store.addedCount = result.added
        /\ store.deletedCount = result.deleted
        /\ store.modifiedCount = result.modified

\* the step is the i-th loadFileTree call completing with success: what it
\* stored is the result it was given
TreeLoaded(i) ==
  TreeResolveWith(i, [ tree |-> store'.fileTree, files |-> store'.files,
                       total_changes |-> store'.totalChanges,
                       added |-> store'.addedCount,
                       deleted |-> store'.deletedCount,
                       modified |-> store'.modifiedCount ])

\* the step issued one get_diff request, for the selected file
RequestedSelected ==
  /\ Len(diffReqs') = Len(diffReqs) + 1
  /\ SubSeq(diffReqs', 1, Len(diffReqs)) = diffReqs
  /\ diffReqs'[Len(diffReqs')].file = store'.selectedFile
  /\ diffReqs'[Len(diffReqs')].options = store'.viewOptions

\* C19 as claimed: a successful loadFileTree whose result has a changed file
\* selects changedFiles[0] and requests its diff; one whose result has none
\* selects no file.
C19_AutoSelectAsClaimed ==
  [][\A i \in 1..Len(treeReqs) : TreeLoaded(i) =>
       IF Len(store'.files) > 0
         THEN /\ store'.selectedFile = changedFiles(store')[1]
              /\ RequestedSelected
         ELSE /\ store'.selectedFile = store.selectedFile
              /\ diffReqs' = diffReqs]_vars

\* C19 amended: a successful loadFileTree whose result has a changed file
\* selects changedFiles[0]; its diff is requested when DiffView is mounted
\* (the directory picker is closed) as the load completes, and no diff is
\* requested when it is not; a result with no changed file leaves the
\* selection as it was and requests nothing.
C19_AutoSelect ==
  [][\A i \in 1..Len(treeReqs) : TreeLoaded(i) =>
       IF Len(store'.files) > 0
         THEN /\ store'.selectedFile = changedFiles(store')[1]
              /\ store'.currentDiff = Null
              /\ IF Mounted THEN RequestedSelected ELSE diffReqs' = diffReqs
         ELSE /\ store'.selectedFile = store.selectedFile
              /\ diffReqs' = diffReqs]_vars

\* C19 witness: a load completed while the picker was open again: the first
\* changed file is selected and nothing was requested for it.
C19_Witness ==
  /\ app.showDirectoryPicker
  /\ treeFrom = Pair1
  /\ treeReqs = << >>
  /\ store.selectedFile = changedFiles(store)[1]
  /\ store.currentDiff = Null
  /\ diffReqs = << >>
  /\ ~store.isLoadingDiff

\* C20: a selected file is one of the changed files of the tree in the
\* store: selectedFile is null or its path occurs in changedFiles, so that
\* currentFileIndex >= 0 and the indicator "i / n files" has 1 <= i <= n.
C20_SelectedIsChanged ==
  store.selectedFile # Null =>
    /\ \E k \in 1..Len(changedFiles(store)) :
         changedFiles(store)[k].path = store.selectedFile.path
    /\ currentFileIndex(store) >= 0
    /\ 1 <= currentFileIndex(store) + 1
    /\ currentFileIndex(store) + 1 <= Len(changedFiles(store))

\* C21: whenever the hunk list is non-empty, the current hunk index
\* addresses one of its entries: 0 <= currentHunkIndex < number of hunks.
C21_HunkIndexInRange ==
  view.hunkElements # << >> =>
    (0 <= view.currentHunkIndex /\ view.currentHunkIndex < Len(view.hunkElements))

\* C22: isLoadingDiff is true whenever a get_diff request is outstanding.
C22_LoadingWhileInFlight == diffReqs # << >> => store.isLoadingDiff

\* C23: at most one of currentDiff and diffError is non-null in every
\* reachable state, and selecting a file (a tree click, a key that moves the
\* selection, the selection of the first file of a new tree) sets both to null.
C23_DiffOrError ==
  /\ [](~(store.currentDiff # Null /\ store.diffError # NullStr))
  /\ [][(\/ store'.selectedFile # store.selectedFile
          \/ (\E node \in TreeNodes(store.fileTree) : HandleFileClick(node))
          \/ (HandleKeydown("j") /\ canGoNext(store))
          \/ (HandleKeydown("k") /\ canGoPrev(store)))
         => (store'.currentDiff = Null /\ store'.diffError = NullStr)]_vars

\* C23 witness: the error of a failed request is held, with no diff, while
\* another request for the selected file is still to settle.
C23_Witness ==
  /\ store.diffError \in DiffErrors
  /\ store.currentDiff = Null
  /\ ~store.isLoadingDiff
  /\ Len(diffReqs) = 1
  /\ diffReqs[1].file = store.selectedFile

\* C24: when every get_diff invocation eventually resolves or rejects, a
\* loadDiff in flight leads to a state with no request outstanding where
\* isLoadingDiff is false and exactly one of currentDiff and diffError is
\* non-null.
C24_LoadDiffSettles ==
  (diffReqs # << >>) ~>
    (/\ diffReqs = << >>
     /\ ~store.isLoadingDiff
     /\ (store.currentDiff # Null) # (store.diffError # NullStr))

\* C24 witness: the requests of the automatic selection and of a toggle
\* have both settled, and the diff of the selected file is in the store.
C24_Witness ==
  /\ diffReqs = << >>
  /\ ~store.isLoadingDiff
  /\ store.currentDiff # Null
  /\ store.diffError = NullStr
  /\ store.viewOptions # InitStore.viewOptions
  /\ diffFrom # NoReq
  /\ diffFrom.file = store.selectedFile

\* C25: selectNextFile with the last changed file selected, and
\* selectPrevFile with the first changed file selected or with no file
\* selected, leave selectedFile, currentDiff and diffError as they were and
\* issue no get_diff request.
C25_NoOpAtEnds ==
  [][\A key \in {"j", "k"} : HandleKeydown(key) =>
       LET n == Len(changedFiles(store))
           i == currentFileIndex(store)
           atEnd == \/ key = "j" /\ store.selectedFile # Null /\ n > 0 /\ i = n - 1
                    \/ key = "k" /\ store.selectedFile # Null /\ n > 0 /\ i = 0
                    \/ key = "k" /\ store.selectedFile = Null
       IN  atEnd =>
             /\ store'.selectedFile = store.selectedFile
             /\ store'.currentDiff = store.currentDiff
             /\ store'.diffError = store.diffError
             /\ diffReqs' = diffReqs]_vars

\* C25 witness: after the load and j, a third key found the last changed
\* file selected and its diff shown, and left them so.
C25_Witness ==
  /\ inputs = 3
  /\ Len(changedFiles(store)) = 2
  /\ currentFileIndex(store) = 1
  /\ diffReqs = << >>
  /\ store.currentDiff # Null
  /\ diffFrom # NoReq
  /\ diffFrom.watch
  /\ diffFrom.file = changedFiles(store)[2]

\* both column markups of the diff in the store are present and non-empty
BothColumns(s) ==
  /\ s.currentDiff.left_html # None /\ s.currentDiff.right_html # None
  /\ Len(s.currentDiff.left_html[1]) > 0 /\ Len(s.currentDiff.right_html[1]) > 0

\* the view the claimed precedence gives for the store s
ViewByPrecedence(s, pane) ==
  LET idle     == ~s.isLoadingDiff /\ s.diffError = NullStr
      selected == s.selectedFile # Null
  IN  /\ (pane = "loading") <=> s.isLoadingDiff
      /\ (pane = "error") <=> (~s.isLoadingDiff /\ s.diffError # NullStr)
      /\ (pane = "no-selection") <=> (idle /\ ~selected)
      /\ (pane = "side-by-side") <=>
           (idle /\ selected /\ s.currentDiff # Null /\ BothColumns(s))
      /\ (pane = "unified") <=>
           (idle /\ selected /\ s.currentDiff # Null /\ ~BothColumns(s))
      /\ (pane \in {"side-by-side", "unified"}) => idle

\* C26 as claimed: the diff pane shows exactly one view, chosen in the
\* precedence loading, error, no selection, two columns, unified.
C26_OneViewAsClaimed ==
  Mounted =>
    /\ ViewByPrecedence(store, DiffPane(store))
    /\ DiffPane(store) \in {"loading", "error", "no-selection", "side-by-side", "unified"}

\* C26 amended: the diff pane shows at most one view, chosen in the
\* precedence loading, error, no selection, two columns (both column markups
\* non-empty), unified; it shows none exactly when a file is selected,
\* nothing is loading, no error is set and currentDiff is null.  Diff markup
\* is never shown while loading or while an error is set.
C26_OneView ==
  Mounted =>
    /\ ViewByPrecedence(store, DiffPane(store))
    /\ (DiffPane(store) = "nothing") <=>
         (/\ ~store.isLoadingDiff /\ store.diffError = NullStr
          /\ store.selectedFile # Null /\ store.currentDiff = Null)

\* C26 witness: a file of an added path is shown unified although
\* side-by-side is requested, as it has no left column.
C26_Witness ==
  /\ Mounted
  /\ store.currentDiff # Null
  /\ store.viewOptions.side_by_side
  /\ store.currentDiff.left_html = None
  /\ DiffPane(store) = "unified"

====
